---- MODULE Spec2Model ----
(***************************************************************************)
(* Count-Min-Log sketch (generic Sketch[T]): the register store, the       *)
(* probabilistic increment engine (Update, BulkUpdate), the estimator      *)
(* (Query), Merge, the constructors and the binary codec.                  *)
(*                                                                         *)
(* Spec: two sketches, A and B, are constructed with NewSketch and then    *)
(* mutated by Update, BulkUpdate and Merge; every draw of the generator is *)
(* any value of Draws.                                                     *)
(* SpecFull: sketch A comes from any of the three constructors, draws from *)
(* its own generator and decodes binary input with UnmarshalBinary.        *)
(* SpecTwin: two sketches built alike receive the same calls, B any number *)
(* of calls behind A.                                                      *)
(* SpecLog: the top-K Log of log.go under Update and Reset; SpecSnapshot:  *)
(* the same with a caller that holds the map GetTopK returned.             *)
(* SpecCtor8: a Sketch8 from its convenience constructors.                 *)
(* SpecClassic: the classic count-min Sketch of log8.go under Add, Reset.  *)
(* SpecLegacy: a legacy Sketch8 or Sketch16 under IncreaseCount and Reset. *)
(*                                                                         *)
(* Scaling.  The register type T holds 0 .. cMax and wraps at cMax + 1     *)
(* (the code instantiates T at 8, 16 or 32 bits; the algorithm only uses   *)
(* ^T(0), comparison and +1).  The two halves of the 64-bit key hash are   *)
(* HashBits wide and wrap at 2^HashBits as uint32 wraps at 2^32.  exp, the *)
(* draws of rng.Float64() and the estimator's results are exact rationals  *)
(* <<num, den>>, with <<0, 0>> for NaN.  In the codec a register is        *)
(* SizeofT bytes of base ByteMod, uint32 is 4 such bytes and int 8.        *)
(***************************************************************************)
EXTENDS Integers, Sequences, FiniteSets, TLC

\* ------------------------------------------------------------- bounds
\* ^T(0), the largest value a register holds: registers are 0 .. cMax and
\* an increment of cMax wraps to 0.
cMax == 3

HashBits == 2

MaxFreq == 2

NumKeys == 2

\* ------------------------------------------------------------- helpers
RECURSIVE Pow(_, _)
Pow(b, n) == IF n = 0 THEN 1 ELSE b * Pow(b, n - 1)

\* The arithmetic of the register type T: results wrap at cMax + 1.
T(x) == x % (cMax + 1)

\* uint32 arithmetic on the halves of the hash wraps at HashMod.
HashMod == Pow(2, HashBits)

Sketches == {"A", "B"}

Keys == 1 .. NumKeys

\* The values rng.Float64() returns, as rationals in [0, 1).  A draw of 0
\* passes every decision; a draw of 3/4 passes the decision at stage 0
\* (threshold 1) and fails it at every stage c >= 1 (threshold exp^-c <= 2/3).
Draws == {<<0, 1>>, <<3, 4>>}

\* float64 values as exact rationals <<num, den>> with den > 0.
RatSub(a, b) == <<a[1] * b[2] - b[1] * a[2], a[2] * b[2]>>

RatDiv(a, b) ==
    IF b[1] < 0 THEN <<(0 - a[1]) * b[2], a[2] * (0 - b[1])>>
    ELSE <<a[1] * b[2], a[2] * b[1]>>

RatLe(a, b) == a[1] * b[2] <= b[1] * a[2]

RatLt(a, b) == a[1] * b[2] < b[1] * a[2]

RatEq(a, b) == a[1] * b[2] = b[1] * a[2]

RatPow(a, n) == <<Pow(a[1], n), Pow(a[2], n)>>

RatMul(a, b) == <<a[1] * b[1], a[2] * b[2]>>

Max(a, b) == IF a >= b THEN a ELSE b

\* math.Ceil of a rational with positive denominator.
Ceil(a) == 0 - ((0 - a[1]) \div a[2])

\* The float64 NaN: every comparison with it is false.
NaN == <<0, 0>>

\* a <= b and a < b on float64 values.
FloatLe(a, b) == a # NaN /\ b # NaN /\ RatLe(a, b)

FloatLt(a, b) == a # NaN /\ b # NaN /\ RatLt(a, b)

\* The arguments (w, d, exp) of the calls of NewSketch the sketches come
\* from; exp is 3/2, 2 or (rejected) 1.
Configs ==
    {<<2, 2, <<3, 2>>>>, <<2, 2, <<2, 1>>>>, <<1, 2, <<3, 2>>>>, <<1, 1, <<3, 2>>>>,
     <<0, 1, <<3, 2>>>>, <<1, 0, <<2, 1>>>>, <<2, 2, <<1, 1>>>>}

\* farm.Hash64 of a key, as its low and high halves.  The hash is an
\* external function; this table fixes one value per key.  With two
\* columns, keys 1 and 2 share their cell in row 1 and differ in row 0; key 3
\* has the cells of key 1, and its h1 + 1*h2 wraps.
Hash64(k) ==
    CASE k = 1 -> [h1 |-> 0, h2 |-> 0]
      [] k = 2 -> [h1 |-> 1, h2 |-> 1]
      [] k = 3 -> [h1 |-> HashMod - 2, h2 |-> 2]
      [] OTHER -> [h1 |-> (3 * k) % HashMod, h2 |-> (k + 1) % HashMod]

StoreLen(store) == Cardinality(DOMAIN store)

\* ------------------------------------------------------------- constructor
\* NewSketch[T](w, d, exp): fails if exp <= 1.0 (false for NaN), else a
\* sketch of w*d zero registers.  The record leaves out logExp (= log exp),
\* idxs (scratch of Update) and rng (see NewPCG).
NewSketch(w, d, exp) ==
    IF FloatLe(exp, <<1, 1>>)
    THEN [err |-> TRUE,
          sketch |-> [w |-> 0, d |-> 0, exp |-> exp, store |-> [i \in {} |-> 0]]]
    ELSE [err |-> FALSE,
          sketch |-> [w |-> w, d |-> d, exp |-> exp,
                      store |-> [i \in 0 .. (w * d - 1) |-> 0]]]

\* math.E to two decimals and math.Log(2) to three.
MathE == <<272, 100>>

Ln2 == <<693, 1000>>

\* math.Ceil(math.Log(x)) for 1/e < x <= e^3: the least n with x <= e^n.
CeilLog(x) ==
    IF RatLe(x, <<1, 1>>) THEN 0
    ELSE CHOOSE n \in 1 .. 3 :
           RatLe(x, RatPow(MathE, n)) /\ ~RatLe(x, RatPow(MathE, n - 1))

\* alpha = math.Pow(float64(^T(0)), 1.0/(float64(^T(0))-1)): the root of
\* order cMax - 1 of cMax, rounded up to one decimal.
Alpha ==
    <<CHOOSE n \in 10 .. (10 * cMax) :
          /\ Pow(n, cMax - 1) >= cMax * Pow(10, cMax - 1)
          /\ Pow(n - 1, cMax - 1) < cMax * Pow(10, cMax - 1),
      10>>

\* NewSketchForEpsilonDelta[T](epsilon, delta), for the arguments whose
\* width and depth convert to uint exactly.
NewSketchForEpsilonDelta(epsilon, delta) ==
    LET width == Ceil(RatDiv(MathE, epsilon))
        depth == CeilLog(RatDiv(<<1, 1>>, delta))
    IN NewSketch(width, depth, Alpha)

\* math.Log(e)/log05 at the error rates the calls use, to three decimals.
LogRatio(e) ==
    CASE e = <<1, 2>> -> <<1, 1>>
      [] e = <<1, 1000>> -> <<9966, 1000>>
      [] e = <<3, 10>> -> <<1737, 1000>>

\* NewForCapacity[T](capacity, e).
NewForCapacity(capacity, e) ==
    IF ~(FloatLe(<<1, 1000>>, e) /\ FloatLt(e, <<1, 1>>))
    THEN [err |-> TRUE,
          sketch |-> [w |-> 0, d |-> 0, exp |-> Alpha, store |-> [i \in {} |-> 0]]]
    ELSE LET m == Max(1, Ceil(RatMul(<<capacity, 1>>, LogRatio(e))))
             w == Max(1, Ceil(RatMul(Ln2, <<m, capacity>>)))
         IN NewSketch(m \div w, w, Alpha)

\* ------------------------------------------------------------- indices
\* Faulty variant of SaltedHash: h1 + i*h2 as an unbounded integer.
SaltedHashNoWrap(hs, i) == hs.h1 + i * hs.h2

\* saltedHash := uint(h1 + uint32(i)*h2), in wrapping arithmetic.
SaltedHash(hs, i) == (hs.h1 + (((i % HashMod) * hs.h2) % HashMod)) % HashMod

\* idx := (i * cml.w) + (saltedHash % cml.w); requires w > 0.
Idx(cml, hs, i) == (i * cml.w) + (SaltedHash(hs, i) % cml.w)

\* saltedHash % cml.w panics when w = 0 and the loop over the d rows runs.
IndexPanics(cml) == cml.w = 0 /\ cml.d > 0

Rows(cml) == 0 .. (cml.d - 1)

\* The cells the key hashes to, one per row.
KeyIdxs(cml, hs) == {Idx(cml, hs, i) : i \in Rows(cml)}

Min(S) == CHOOSE x \in S : \A y \in S : x <= y

\* Faulty variant of MinVal: the largest of the key's registers.
MaxOfCells(cml, hs) ==
    LET vals == {0} \cup {cml.store[x] : x \in KeyIdxs(cml, hs)}
    IN CHOOSE x \in vals : \A y \in vals : x >= y

\* The minimum of the key's d registers, starting from ^T(0).
MinVal(cml, hs) == Min({cMax} \cup {cml.store[x] : x \in KeyIdxs(cml, hs)})

\* rng.Float64() < math.Exp(-float64(c)*logExp), for the draw r: r < exp^-c.
\* With exp NaN, logExp and the threshold are NaN and the comparison is false.
increaseDecision(cml, c, r) ==
    cml.exp # NaN /\ RatLt(r, RatPow(<<cml.exp[2], cml.exp[1]>>, c))

\* ------------------------------------------------------------- Update
\* Faulty variant of MinIdxs: every cell of the key, not only the minimal ones.
AllIdxs(cml, hs, minVal) == KeyIdxs(cml, hs)

\* Update's scan: the indices of the key's cells that hold the minimum.
MinIdxs(cml, hs, minVal) == {x \in KeyIdxs(cml, hs) : cml.store[x] = minVal}

\* Faulty variant of Saturated: > in place of >=.
SaturatedOffByOne(minVal) == minVal > cMax

\* Update's overflow check: minVal >= ^T(0).
Saturated(minVal) == minVal >= cMax

\* cml.Update(e) for cml = h[s], e a key of hash hs, r the draw it makes if
\* it draws.  The heap after the call, the value returned, and whether the
\* call panicked.
Update(h, s, hs, r) ==
    LET cml == h[s] IN
    IF IndexPanics(cml) THEN [heap |-> h, ret |-> FALSE, panic |-> TRUE]
    ELSE
      LET minVal == MinVal(cml, hs)
          idxs == MinIdxs(cml, hs, minVal)
      IN IF Saturated(minVal) THEN [heap |-> h, ret |-> FALSE, panic |-> FALSE]
         ELSE IF ~increaseDecision(cml, minVal, r)
              THEN [heap |-> h, ret |-> FALSE, panic |-> FALSE]
         ELSE [heap |-> [h EXCEPT ![s].store =
                            [x \in DOMAIN cml.store |->
                                IF x \in idxs THEN T(minVal + 1) ELSE cml.store[x]]],
               ret |-> TRUE, panic |-> FALSE]

\* ------------------------------------------------------------- BulkUpdate
\* Faulty variant of BulkSaturated: > in place of >=.
BulkSaturatedOffByOne(minVal) == minVal > cMax

\* BulkUpdate's check before each increment: minVal >= maxVal.
BulkSaturated(minVal) == minVal >= cMax

\* Faulty variant of BulkLoop: a rejected draw ends the loop (break in
\* place of continue).
RECURSIVE BulkLoopBreakOnReject(_, _, _, _, _, _, _)
BulkLoopBreakOnReject(cml, idxs, minVal, rs, n, freq, anyUpdated) ==
    IF n >= freq THEN [sketch |-> cml, ret |-> anyUpdated, draws |-> n]
    ELSE IF BulkSaturated(minVal) THEN [sketch |-> cml, ret |-> anyUpdated, draws |-> n]
    ELSE IF ~increaseDecision(cml, minVal, rs[n + 1])
         THEN [sketch |-> cml, ret |-> anyUpdated, draws |-> n + 1]
    ELSE
      LET updatedVal == T(minVal + 1)
          next == [cml EXCEPT !.store =
                      [x \in DOMAIN cml.store |->
                          IF x \in idxs /\ cml.store[x] = minVal THEN updatedVal
                          ELSE cml.store[x]]]
      IN BulkLoopBreakOnReject(next, idxs, updatedVal, rs, n + 1, freq, TRUE)

\* The loop body for i = n, n+1, ..., freq-1 on the sketch cml; rs[n+1]
\* is the draw iteration n makes if it draws.  Every iteration the loop
\* enters makes one draw, so the result's draws is the number of draws made.
RECURSIVE BulkLoop(_, _, _, _, _, _, _)
BulkLoop(cml, idxs, minVal, rs, n, freq, anyUpdated) ==
    IF n >= freq THEN [sketch |-> cml, ret |-> anyUpdated, draws |-> n]
    ELSE IF BulkSaturated(minVal) THEN [sketch |-> cml, ret |-> anyUpdated, draws |-> n]
    ELSE IF ~increaseDecision(cml, minVal, rs[n + 1])
         THEN BulkLoop(cml, idxs, minVal, rs, n + 1, freq, anyUpdated)
    ELSE
      LET updatedVal == T(minVal + 1)
          updated == \E x \in idxs : cml.store[x] = minVal
          next == [cml EXCEPT !.store =
                      [x \in DOMAIN cml.store |->
                          IF x \in idxs /\ cml.store[x] = minVal THEN updatedVal
                          ELSE cml.store[x]]]
      IN IF updated
         THEN BulkLoop(next, idxs, updatedVal, rs, n + 1, freq, TRUE)
         ELSE BulkLoop(next, idxs, minVal, rs, n + 1, freq, anyUpdated)

\* Faulty variant of BulkUpdate: returns whether an increment was attempted.
BulkUpdateAttempted(h, s, hs, freq, rs) ==
    LET cml == h[s] IN
    IF IndexPanics(cml) THEN [heap |-> h, ret |-> FALSE, panic |-> TRUE, draws |-> 0]
    ELSE LET res == BulkLoop(cml, KeyIdxs(cml, hs), MinVal(cml, hs), rs, 0, freq, FALSE)
         IN [heap |-> [h EXCEPT ![s] = res.sketch], ret |-> freq > 0, panic |-> FALSE,
             draws |-> res.draws]

\* cml.BulkUpdate(e, freq) for cml = h[s]; rs are the draws of the freq
\* iterations.
BulkUpdate(h, s, hs, freq, rs) ==
    LET cml == h[s] IN
    IF IndexPanics(cml) THEN [heap |-> h, ret |-> FALSE, panic |-> TRUE, draws |-> 0]
    ELSE LET res == BulkLoop(cml, KeyIdxs(cml, hs), MinVal(cml, hs), rs, 0, freq, FALSE)
         IN [heap |-> [h EXCEPT ![s] = res.sketch], ret |-> res.ret, panic |-> FALSE,
             draws |-> res.draws]

\* ------------------------------------------------------------- generator
\* rand.New(rand.NewPCG(uint64(w), uint64(d))): the generator's state is its
\* seed and the number of draws made from it.
NewPCG(w, d) == [seed |-> <<w, d>>, pos |-> 0]

\* The value rng.Float64() returns in state rng.  The generator is an
\* external function of the seed and the position; this table fixes one
\* sequence per seed, each with draws that pass and draws that fail a
\* decision at stage c >= 1.
Float64(rng) ==
    IF (rng.seed[1] + rng.seed[2] + rng.pos) % 3 = 2 THEN <<3, 4>> ELSE <<0, 1>>

\* The number of draws h[s].Update(e) makes: one, in increaseDecision,
\* unless it panics or returns at the overflow check.
UpdateDraws(h, s, hs) ==
    IF IndexPanics(h[s]) THEN 0
    ELSE IF Saturated(MinVal(h[s], hs)) THEN 0
    ELSE 1

\* Faulty variant of UpdateRng: one generator, that of sketch A, serves
\* every sketch.
UpdateRngShared(h, s, hs) ==
    LET res == Update(h, s, hs, Float64(h["A"].rng))
    IN [heap |-> [res.heap EXCEPT !["A"].rng.pos = @ + UpdateDraws(h, s, hs)],
        ret |-> res.ret, panic |-> res.panic]

\* cml.Update(e) drawing from the sketch's own generator.
UpdateRng(h, s, hs) ==
    LET cml == h[s]
        res == Update(h, s, hs, Float64(cml.rng))
    IN [heap |-> [res.heap EXCEPT ![s].rng.pos = @ + UpdateDraws(h, s, hs)],
        ret |-> res.ret, panic |-> res.panic]

\* cml.BulkUpdate(e, freq) drawing from the sketch's own generator.
BulkUpdateRng(h, s, hs, freq) ==
    LET cml == h[s]
        rs == [i \in 1 .. freq |-> Float64([cml.rng EXCEPT !.pos = @ + i - 1])]
        res == BulkUpdate(h, s, hs, freq, rs)
    IN [heap |-> [res.heap EXCEPT ![s].rng.pos = @ + res.draws],
        ret |-> res.ret, panic |-> res.panic]

\* ------------------------------------------------------------- estimator
\* Faulty variant of pointValue: exp^c in place of exp^(c-1).
pointValueNoShift(cml, c) == IF c = 0 THEN <<0, 1>> ELSE RatPow(cml.exp, c)

\* pointValue: 0 for c = 0, else math.Pow(exp, float64(c-1)).
pointValue(cml, c) == IF c = 0 THEN <<0, 1>> ELSE RatPow(cml.exp, T(c - 1))

\* Faulty variant of value: c++ without the check c < ^T(0).
valueNoGuard(cml, c) ==
    IF c <= 1 THEN pointValue(cml, c)
    ELSE RatDiv(RatSub(<<1, 1>>, pointValue(cml, T(c + 1))), RatSub(<<1, 1>>, cml.exp))

value(cml, c) ==
    IF c <= 1 THEN pointValue(cml, c)
    ELSE LET c2 == IF c < cMax THEN T(c + 1) ELSE c
         IN RatDiv(RatSub(<<1, 1>>, pointValue(cml, c2)), RatSub(<<1, 1>>, cml.exp))

\* cml.Query(e), for a sketch on which the index computation does not panic.
Query(cml, hs) == value(cml, MinVal(cml, hs))

\* ------------------------------------------------------------- Merge
\* Faulty variant of MergeMismatch: exp is not compared.
MergeMismatchNoExp(cml, other) ==
    \/ cml.w # other.w
    \/ cml.d # other.d
    \/ StoreLen(cml.store) # StoreLen(other.store)

MergeMismatch(cml, other) ==
    \/ cml.w # other.w
    \/ cml.d # other.d
    \/ cml.exp # other.exp
    \/ StoreLen(cml.store) # StoreLen(other.store)

\* Faulty variants of MergeCell: other's value, the sum, the minimum.
MergeCellCopy(mine, theirs) == theirs

MergeCellSum(mine, theirs) == T(mine + theirs)

MergeCellMin(mine, theirs) == IF theirs < mine THEN theirs ELSE mine

\* The value Merge leaves in a cell holding `mine` when other's holds `theirs`.
MergeCell(mine, theirs) == IF theirs > mine THEN theirs ELSE mine

\* h[s].Merge(h[o]): the heap after the call and whether it returned an error.
Merge(h, s, o) ==
    LET cml == h[s]
        other == h[o]
    IN IF MergeMismatch(cml, other) THEN [heap |-> h, err |-> TRUE]
       ELSE [heap |-> [h EXCEPT ![s].store =
                          [i \in DOMAIN cml.store |->
                              MergeCell(cml.store[i], other.store[i])]],
             err |-> FALSE]

\* ------------------------------------------------------------- codec
\* unsafe.Sizeof(T(0)): a register is two bytes wide.
SizeofT == 2

\* The header: w (4 bytes), d (4 bytes), exp (8 bytes).
HeaderSize == 16

\* A byte holds 0 .. ByteMod - 1, with ByteMod the least base in which
\* SizeofT bytes hold every register value (256 for the 16-bit registers of
\* the code, 2 for registers 0 .. 3).
ByteMod ==
    CHOOSE b \in 2 .. (cMax + 1) :
        Pow(b, SizeofT) >= cMax + 1 /\ Pow(b - 1, SizeofT) < cMax + 1

\* uint32 values are 0 .. Uint32Mod - 1; int is 8 bytes wide and signed.
Uint32Mod == Pow(ByteMod, 4)

IntMod == Pow(ByteMod, 8)

\* The value of an arithmetic result x in the type int.
ToInt(x) ==
    LET m == x % IntMod
    IN IF m >= IntMod \div 2 THEN m - IntMod ELSE m

\* binary.LittleEndian.PutUint32/16/64 of v converted to the n-byte
\* unsigned type: the n low bytes of v, least significant first.
PutUint(v, n) == [i \in 1 .. n |-> (v \div Pow(ByteMod, i - 1)) % ByteMod]

\* binary.LittleEndian.Uint32/16/64(data[off:]), reading n bytes.
RECURSIVE GetUint(_, _, _)
GetUint(data, off, n) ==
    IF n = 0 THEN 0 ELSE data[off + 1] + ByteMod * GetUint(data, off + 1, n - 1)

\* math.Float64bits and math.Float64frombits on the floats of the model:
\* the bits of a float are its place in FloatTable; all other bit patterns
\* are NaNs.
FloatTable == << <<0, 1>>, <<1, 1>>, <<3, 2>>, <<2, 1>>, Alpha, NaN, <<3, 1>> >>

Float64bits(x) == (CHOOSE i \in 1 .. Len(FloatTable) : FloatTable[i] = x) - 1

Float64frombits(b) == IF b < Len(FloatTable) THEN FloatTable[b + 1] ELSE NaN

\* The header MarshalBinary writes for (w, d, exp).
Header(w, d, exp) == PutUint(w, 4) \o PutUint(d, 4) \o PutUint(Float64bits(exp), 8)

\* cml.MarshalBinary(): the header, then the registers in store order.
MarshalBinary(cml) ==
    Header(cml.w, cml.d, cml.exp) \o
    [j \in 1 .. (StoreLen(cml.store) * SizeofT) |->
        PutUint(cml.store[(j - 1) \div SizeofT], SizeofT)[((j - 1) % SizeofT) + 1]]

\* The registers UnmarshalBinary reads into the store of a w*d sketch.
ReadStore(data, w, d) ==
    [i \in 0 .. (w * d - 1) |-> T(GetUint(data, HeaderSize + i * SizeofT, SizeofT))]

\* Faulty variant of UnmarshalBinary: the receiver keeps its generator.
UnmarshalKeepRng(h, s, data) ==
    IF Len(data) < HeaderSize THEN [heap |-> h, err |-> TRUE, panic |-> FALSE]
    ELSE
      LET w == GetUint(data, 0, 4)
          d == GetUint(data, 4, 4)
          exp == Float64frombits(GetUint(data, 8, 8))
          made == NewSketch(w, d, exp)
      IN IF Len(data) # ToInt(HeaderSize + w * d * SizeofT) \/ made.err
         THEN [heap |-> h, err |-> TRUE, panic |-> FALSE]
         ELSE IF StoreLen(made.sketch.store) * SizeofT > Len(data) - HeaderSize
         THEN [heap |-> h, err |-> FALSE, panic |-> TRUE]
         ELSE [heap |-> [h EXCEPT ![s] = [@ EXCEPT !.w = w, !.d = d, !.exp = exp,
                                             !.store = ReadStore(data, w, d)]],
               err |-> FALSE, panic |-> FALSE]

\* h[s].UnmarshalBinary(data): the heap after the call, whether it returned
\* an error and whether it panicked.  expectedSize is computed in int.  A
\* store of w*d registers that is larger than the body of data makes
\* make([]T, w*d) panic (len out of range) or the read loop run past the end
\* of data.  *cml = *sketch replaces every field of the receiver, the
\* generator included.
UnmarshalBinary(h, s, data) ==
    IF Len(data) < HeaderSize THEN [heap |-> h, err |-> TRUE, panic |-> FALSE]
    ELSE
      LET w == GetUint(data, 0, 4)
          d == GetUint(data, 4, 4)
          exp == Float64frombits(GetUint(data, 8, 8))
          expectedSize == ToInt(HeaderSize + w * d * SizeofT)
          made == NewSketch(w, d, exp)
      IN IF Len(data) # expectedSize THEN [heap |-> h, err |-> TRUE, panic |-> FALSE]
         ELSE IF made.err THEN [heap |-> h, err |-> TRUE, panic |-> FALSE]
         ELSE IF StoreLen(made.sketch.store) * SizeofT > Len(data) - HeaderSize
         THEN [heap |-> h, err |-> FALSE, panic |-> TRUE]
         ELSE [heap |-> [h EXCEPT ![s] = [@ EXCEPT !.w = w, !.d = d, !.exp = exp,
                                             !.store = ReadStore(data, w, d),
                                             !.rng = NewPCG(w, d)]],
               err |-> FALSE, panic |-> FALSE]

\* ------------------------------------------------------------- state
\* sk[s] is sketch s: its fields w, d, exp and store.
VARIABLES sk

vars == <<sk>>

Init ==
    \E cfgA \in Configs, cfgB \in Configs :
        LET a == NewSketch(cfgA[1], cfgA[2], cfgA[3])
            b == NewSketch(cfgB[1], cfgB[2], cfgB[3])
        IN /\ ~a.err
           /\ ~b.err
           /\ sk = [s \in Sketches |-> IF s = "A" THEN a.sketch ELSE b.sketch]

DoUpdate ==
    \E s \in Sketches, k \in Keys, r \in Draws :
        sk' = Update(sk, s, Hash64(k), r).heap

DoBulkUpdate ==
    \E s \in Sketches, k \in Keys, freq \in 0 .. MaxFreq :
        \E rs \in [1 .. freq -> Draws] :
            sk' = BulkUpdate(sk, s, Hash64(k), freq, rs).heap

DoMerge ==
    \E s \in Sketches, o \in Sketches :
        sk' = Merge(sk, s, o).heap

Next == DoUpdate \/ DoBulkUpdate \/ DoMerge

Spec == Init /\ [][Next]_vars

\* ------------------------------------------------------------- SpecFull
\* The sketch as a whole object.  In SpecFull sk[s] also holds rng (the
\* sketch's generator), nil (the constructor returned no sketch) and call
\* (the constructor call the object comes from).  A is updated, drawing from
\* its rng, and decodes binary input; B stays as constructed and is there
\* for its encoding.
MaxDraws == 3

\* The constructor calls sketch A comes from, and those of sketch B.
CallsA ==
    {[fn |-> "NewSketch", args |-> c] :
        c \in Configs \cup {<<1, 1, NaN>>, <<Uint32Mod, 1, <<3, 2>>>>}}
    \cup {[fn |-> "NewSketchForEpsilonDelta", args |-> <<e, dl>>] :
            e \in {<<99, 100>>, <<2, 1>>}, dl \in {<<1, 2>>, <<1, 4>>, <<1, 1>>}}
    \cup {[fn |-> "NewForCapacity", args |-> <<1, e>>] :
            e \in {<<1, 2>>, <<1, 1000>>, <<1, 2000>>, <<1, 1>>, NaN}}

CallsB ==
    {[fn |-> "NewSketch", args |-> c] : c \in {<<2, 2, <<3, 2>>>>}}

\* The result of a constructor call.
Construct(call) ==
    CASE call.fn = "NewSketch" -> NewSketch(call.args[1], call.args[2], call.args[3])
      [] call.fn = "NewSketchForEpsilonDelta" ->
           NewSketchForEpsilonDelta(call.args[1], call.args[2])
      [] call.fn = "NewForCapacity" -> NewForCapacity(call.args[1], call.args[2])

\* The object a constructor call leaves with its caller.
Object(call) ==
    LET res == Construct(call) IN
    [w |-> res.sketch.w, d |-> res.sketch.d, exp |-> res.sketch.exp,
     store |-> res.sketch.store, rng |-> NewPCG(res.sketch.w, res.sketch.d),
     nil |-> res.err, call |-> call]

\* A 16-byte header whose w*d*sizeof(T) exceeds the range of int, followed
\* by the few bytes that the product wraps to.
OverflowInput ==
    LET p == CHOOSE q \in (1 .. (Uint32Mod - 1)) \X (1 .. (Uint32Mod - 1)) :
               /\ q[1] * q[2] * SizeofT >= IntMod
               /\ (q[1] * q[2] * SizeofT) % IntMod <= 8
    IN Header(p[1], p[2], <<3, 2>>) \o
       [j \in 1 .. ((p[1] * p[2] * SizeofT) % IntMod) |-> 0]

\* m with its exp replaced by the bits of x.
WithExp(m, x) == SubSeq(m, 1, 8) \o PutUint(Float64bits(x), 8) \o SubSeq(m, 17, Len(m))

\* The inputs UnmarshalBinary is called with: the encodings of the live
\* sketches, and these cut short, extended by a byte, or with another exp.
Inputs(h) ==
    UNION {LET m == MarshalBinary(h[o])
           IN {m, SubSeq(m, 1, 3), SubSeq(m, 1, HeaderSize - 1),
               SubSeq(m, 1, Len(m) - 1), m \o <<0>>,
               WithExp(m, <<1, 1>>), WithExp(m, NaN)} :
           o \in {x \in Sketches : ~h[x].nil}}
    \cup {OverflowInput}

InitFull ==
    \E callA \in CallsA, callB \in CallsB :
        sk = [s \in Sketches |-> IF s = "A" THEN Object(callA) ELSE Object(callB)]

DoUpdateRng ==
    \E k \in Keys :
        /\ ~sk["A"].nil
        /\ sk["A"].rng.pos < MaxDraws
        /\ sk' = UpdateRng(sk, "A", Hash64(k)).heap

DoBulkUpdateRng ==
    \E k \in Keys, freq \in 0 .. MaxFreq :
        /\ ~sk["A"].nil
        /\ sk["A"].rng.pos + freq <= MaxDraws
        /\ sk' = BulkUpdateRng(sk, "A", Hash64(k), freq).heap

DoUnmarshalBinary ==
    \E data \in Inputs(sk) :
        /\ ~sk["A"].nil
        /\ sk' = UnmarshalBinary(sk, "A", data).heap

NextFull == DoUpdateRng \/ DoBulkUpdateRng \/ DoUnmarshalBinary

SpecFull == InitFull /\ [][NextFull]_vars

\* ------------------------------------------------------------- SpecTwin
\* Two sketches built with the same (w, d, exp) and given the same calls.
\* In SpecTwin sk[s] holds rng and hist, the calls made on the sketch so far
\* with the value each returned.  A's caller picks every call; B's caller
\* repeats them in order, any number of calls behind.
MaxCalls == 3

TwinConfigs == {<<2, 2, <<3, 2>>>>, <<1, 2, <<2, 1>>>>, <<2, 1, <<3, 2>>>>}

TwinOps ==
    {[op |-> "Update", key |-> k, freq |-> 1] : k \in Keys}
    \cup {[op |-> "BulkUpdate", key |-> k, freq |-> MaxFreq] : k \in Keys}

Twin(cfg) ==
    LET res == NewSketch(cfg[1], cfg[2], cfg[3]) IN
    [w |-> res.sketch.w, d |-> res.sketch.d, exp |-> res.sketch.exp,
     store |-> res.sketch.store, rng |-> NewPCG(res.sketch.w, res.sketch.d),
     hist |-> <<>>]

\* The heap after the call op on sketch s, with the call and its returned
\* value appended to the sketch's hist.
Call(h, s, op) ==
    LET res == IF op.op = "Update" THEN UpdateRng(h, s, Hash64(op.key))
               ELSE BulkUpdateRng(h, s, Hash64(op.key), op.freq)
    IN [res.heap EXCEPT ![s].hist = Append(@, [op |-> op, ret |-> res.ret])]

InitTwin ==
    \E cfg \in TwinConfigs : sk = [s \in Sketches |-> Twin(cfg)]

DoLead ==
    \E op \in TwinOps :
        /\ Len(sk["A"].hist) < MaxCalls
        /\ sk' = Call(sk, "A", op)

DoFollow ==
    /\ Len(sk["B"].hist) < Len(sk["A"].hist)
    /\ sk' = Call(sk, "B", sk["A"].hist[Len(sk["B"].hist) + 1].op)

NextTwin == DoLead \/ DoFollow

SpecTwin == InitTwin /\ [][NextTwin]_vars

\* -------------------------------------------------------------- SpecLog
\* The top-K Log of log.go: a d x w array of uint8 registers, base
\* x = 1.008, and the map topk of at most k tracked keys.  In SpecLog sk is
\* one record: the Log's fields, the heap maps of the Go maps by address, and
\* got, the address GetTopK last returned to the caller (0: none yet).
\* uint8 is the register type T here: math.MaxUint8 is cMax.
NumLogKeys == 3

LogKeys == 1 .. NumLogKeys

\* rand.Float64(): 0 passes every decision, 0.999 only the one at c = 0.
LogDraws == {<<0, 1>>, <<999, 1000>>}

LogX == <<126, 125>>

MaxUint32 == HashMod - 1

Addrs == 1 .. 3

EmptyMap == [x \in {} |-> 0]

\* m[key] = v and delete(m, key) on a Go map.
MapPut(m, key, v) == [x \in DOMAIN m \cup {key} |-> IF x = key THEN v ELSE m[x]]

MapDelete(m, key) == [x \in DOMAIN m \ {key} |-> m[x]]

\* uint(f) for f >= 0.
Floor(a) == a[1] \div a[2]

\* Keys 1 and 3 share their column in row 0 of a Log of width 3.
hashn(e) == [h1 |-> (2 * e) % HashMod, h2 |-> (e + 1) % HashMod]

\* NewLog(delta, epsilon, k).
NewLog(delta, epsilon, k) ==
    IF FloatLe(delta, <<0, 1>>) \/ FloatLe(<<1, 1>>, delta) THEN [err |-> TRUE]
    ELSE IF FloatLe(epsilon, <<0, 1>>) \/ FloatLe(<<1, 1>>, epsilon) THEN [err |-> TRUE]
    ELSE IF k < 1 THEN [err |-> TRUE]
    ELSE LET d == CeilLog(RatDiv(<<1, 1>>, delta))
             w == Ceil(RatDiv(MathE, epsilon))
         IN [err |-> FALSE,
             log |-> [w |-> w, d |-> d, k |-> k,
                      count |-> [i \in 0 .. (d - 1) |-> [j \in 0 .. (w - 1) |-> 0]],
                      topk |-> 1,
                      maps |-> [a \in Addrs |-> EmptyMap],
                      got |-> 0]]

\* The address make() returns: one no live reference holds.
FreshAddr(h) == Min(Addrs \ {h.topk, h.got})

\* The heap with every map no reference reaches collected.
Collect(h) ==
    [h EXCEPT !.maps = [a \in Addrs |-> IF a \in {h.topk, h.got} THEN h.maps[a]
                                        ELSE EmptyMap]]

\* log.Reset().
Reset(h) ==
    Collect([h EXCEPT !.count = [i \in 0 .. (h.d - 1) |-> [j \in 0 .. (h.w - 1) |-> 0]],
                      !.topk = FreshAddr(h),
                      !.maps[FreshAddr(h)] = EmptyMap])

column(h, e, i) == ((hashn(e).h1 + i * hashn(e).h2) % HashMod) % h.w

\* log.getMin(e).
getMin(h, e) == Min({cMax} \cup {h.count[i][column(h, e, i)] : i \in 0 .. (h.d - 1)})

\* log.increaseDecision(c) on the draw r.
LogIncreaseDecision(c, r) == RatLt(r, <<Pow(LogX[2], c), Pow(LogX[1], c)>>)

getPointValue(c) == IF c = 0 THEN <<0, 1>> ELSE RatPow(LogX, c - 1)

getValue(c) ==
    IF c <= 1 THEN getPointValue(c)
    ELSE RatDiv(RatSub(<<1, 1>>, getPointValue(T(c + 1))), RatSub(<<1, 1>>, LogX))

\* log.Query(key).
LogQuery(h, key) == Floor(getValue(getMin(h, key)))

\* The keys the loop of updateTopK can leave in minKey: the first key with
\* the smallest count in the order the range over the map visits them, an
\* order Go leaves unspecified; 0 is the empty string.
MinKeys(m) ==
    LET low == {x \in DOMAIN m : m[x] < MaxUint32 /\ \A y \in DOMAIN m : m[x] <= m[y]}
    IN IF low = {} THEN {0} ELSE low

\* Faulty variant of updateTopK: nothing is ever deleted.
updateTopKNoDelete(h, m, key, minKey) ==
    LET estimate == LogQuery(h, key)
        minCount == Min({MaxUint32} \cup {m[x] : x \in DOMAIN m})
    IN IF estimate > minCount \/ Cardinality(DOMAIN m) < h.k
       THEN MapPut(m, key, estimate)
       ELSE m

\* Faulty variant of updateTopK: an estimate equal to the smallest count
\* replaces it too.
updateTopKNonStrict(h, m, key, minKey) ==
    LET estimate == LogQuery(h, key)
        minCount == Min({MaxUint32} \cup {m[x] : x \in DOMAIN m})
    IN IF estimate >= minCount \/ Cardinality(DOMAIN m) < h.k
       THEN MapPut(IF Cardinality(DOMAIN m) >= h.k THEN MapDelete(m, minKey) ELSE m,
                   key, estimate)
       ELSE m

\* log.updateTopK(key) on the map m = log.topk when the loop leaves minKey.
updateTopK(h, m, key, minKey) ==
    LET estimate == LogQuery(h, key)
        minCount == Min({MaxUint32} \cup {m[x] : x \in DOMAIN m})
    IN IF estimate > minCount \/ Cardinality(DOMAIN m) < h.k
       THEN MapPut(IF Cardinality(DOMAIN m) >= h.k THEN MapDelete(m, minKey) ELSE m,
                   key, estimate)
       ELSE m

\* The registers after the loop of Update(e) at minimum c.
Increased(h, e, c) ==
    [i \in 0 .. (h.d - 1) |->
        [j \in 0 .. (h.w - 1) |->
            IF j = column(h, e, i) /\ h.count[i][j] = c /\ T(c + 1) < cMax
            THEN T(c + 1) ELSE h.count[i][j]]]

\* Faulty variant of LogUpdate: the tracker is updated before the registers.
LogUpdateStale(h, e, r, minKey) ==
    LET c == getMin(h, e) IN
    IF LogIncreaseDecision(c, r)
    THEN [h EXCEPT !.count = Increased(h, e, c),
                   !.maps[h.topk] = updateTopK(h, h.maps[h.topk], e, minKey)]
    ELSE h

\* log.Update(e) on the draw r when updateTopK's loop leaves minKey.
LogUpdate(h, e, r, minKey) ==
    LET c == getMin(h, e) IN
    IF LogIncreaseDecision(c, r)
    THEN LET h1 == [h EXCEPT !.count = Increased(h, e, c)]
         IN [h1 EXCEPT !.maps[h.topk] = updateTopK(h1, h.maps[h.topk], e, minKey)]
    ELSE h

\* log.GetTopK(): the map itself.
GetTopK(h) == h.topk

LogCalls ==
    {<<<<1, 2>>, <<99, 100>>, 1>>, <<<<1, 2>>, <<99, 100>>, 2>>,
     <<<<1, 4>>, <<99, 100>>, 2>>, <<<<1, 2>>, <<9, 10>>, 2>>,
     <<<<1, 4>>, <<9, 10>>, 1>>, <<<<1, 4>>, <<9, 10>>, 3>>}

InitLog ==
    \E c \in LogCalls :
        /\ ~NewLog(c[1], c[2], c[3]).err
        /\ sk = NewLog(c[1], c[2], c[3]).log

DoLogUpdate ==
    \E e \in LogKeys, r \in LogDraws :
        \E minKey \in MinKeys(sk.maps[sk.topk]) :
            sk' = LogUpdate(sk, e, r, minKey)

DoReset == sk' = Reset(sk)

DoGetTopK == sk' = Collect([sk EXCEPT !.got = GetTopK(sk)])

NextLog == DoLogUpdate \/ DoReset

SpecLog == InitLog /\ [][NextLog]_vars

\* SpecSnapshot: the Log with a caller that also takes the map GetTopK
\* returns.
SnapshotCalls ==
    {<<<<1, 2>>, <<99, 100>>, 1>>, <<<<1, 4>>, <<99, 100>>, 1>>}

InitSnapshot ==
    \E c \in SnapshotCalls :
        /\ ~NewLog(c[1], c[2], c[3]).err
        /\ sk = NewLog(c[1], c[2], c[3]).log

NextSnapshot == DoLogUpdate \/ DoReset \/ DoGetTopK

SpecSnapshot == InitSnapshot /\ [][NextSnapshot]_vars

\* ---------------------------------------------------------- SpecClassic
\* The classic count-min Sketch with top-K of log8.go (Add, Get): d rows of
\* w uint counters, the sum total of all increments, and the map topk.  In
\* SpecClassic sk is one record; a and b are the parameters
\* generateHashFunctions drew.  uint is 8 bytes wide: its arithmetic wraps
\* at IntMod.
bigPrime == 7

\* The pairs (a, b) of randomParameter() values, each below bigPrime - 1.
ClassicParams == {<<1, 0>>, <<2, 1>>, <<0, 3>>}

\* uint(math.Abs(float64(farmhash.Hash64(key)))).
KeyHash(key) == key

\* hashFuncs[i](x), the same function for every row i.
hashFunc(h, x) == ((((h.a * x) + h.b) % IntMod) % bigPrime) % h.w

\* NewSketch(delta, epsilon, k) of the classic sketch when
\* generateHashFunctions draws a and b.
NewCountMin(delta, epsilon, k, a, b) ==
    IF FloatLe(delta, <<0, 1>>) \/ FloatLe(<<1, 1>>, delta) THEN [err |-> TRUE]
    ELSE IF FloatLe(epsilon, <<0, 1>>) \/ FloatLe(<<1, 1>>, epsilon) THEN [err |-> TRUE]
    ELSE IF k < 1 THEN [err |-> TRUE]
    ELSE LET w == Ceil(RatDiv(MathE, epsilon))
             d == CeilLog(RatDiv(<<1, 1>>, delta))
         IN [err |-> FALSE,
             sketch |-> [w |-> w, d |-> d, k |-> k, a |-> a, b |-> b,
                         count |-> [i \in 0 .. (d - 1) |-> [j \in 0 .. (w - 1) |-> 0]],
                         topk |-> EmptyMap,
                         total |-> 0]]

\* The element at index idx of the values vals[0 .. n-1] sorted ascending.
SortedAt(vals, n, idx) ==
    CHOOSE v \in {vals[i] : i \in 0 .. (n - 1)} :
        /\ Cardinality({i \in 0 .. (n - 1) : vals[i] < v}) <= idx
        /\ Cardinality({i \in 0 .. (n - 1) : vals[i] <= v}) > idx

\* sk.Get(key): ret is the value returned; underflow, that a subtraction
\* of uints wrapped; divzero, that w - 1 is zero and the division panics.
Get(h, key) ==
    LET col == hashFunc(h, KeyHash(key))
        raw == [i \in 0 .. (h.d - 1) |-> h.count[i][col]]
        err == [i \in 0 .. (h.d - 1) |->
                   IF h.w = 1 THEN 0
                   ELSE ((h.total - raw[i]) % IntMod) \div (h.w - 1)]
        values == [i \in 0 .. (h.d - 1) |-> (raw[i] - err[i]) % IntMod]
    IN [ret |-> SortedAt(values, h.d, h.d \div 2),
        underflow |-> \E i \in 0 .. (h.d - 1) : h.total < raw[i] \/ raw[i] < err[i],
        divzero |-> h.w = 1]

\* sk.updateTopK(key) of the classic sketch when the loop leaves minKey.
ClassicUpdateTopK(h, key, minKey) ==
    LET m == h.topk
        estimate == Get(h, key).ret
        minCount == Min({MaxUint32} \cup {m[x] : x \in DOMAIN m})
    IN IF estimate > minCount \/ Cardinality(DOMAIN m) < h.k
       THEN [h EXCEPT !.topk =
                MapPut(IF Cardinality(DOMAIN m) >= h.k THEN MapDelete(m, minKey) ELSE m,
                       key, estimate)]
       ELSE h

\* sk.Add(key) when updateTopK's loop leaves minKey.
Add(h, key, minKey) ==
    LET col == hashFunc(h, KeyHash(key))
        rows == {i \in 0 .. (h.d - 1) : h.count[i][col] < MaxUint32}
        h1 == [h EXCEPT !.count = [i \in 0 .. (h.d - 1) |-> [j \in 0 .. (h.w - 1) |->
                                      IF i \in rows /\ j = col
                                      THEN h.count[i][j] + 1 ELSE h.count[i][j]]],
                        !.total = (@ + Cardinality(rows)) % IntMod]
    IN ClassicUpdateTopK(h1, key, minKey)

\* sk.Reset() of the classic sketch.
ClassicReset(h) ==
    [h EXCEPT !.count = [i \in 0 .. (h.d - 1) |-> [j \in 0 .. (h.w - 1) |-> 0]],
              !.topk = EmptyMap,
              !.total = 0]

ClassicCalls ==
    {<<<<1, 2>>, <<99, 100>>, 1>>, <<<<1, 4>>, <<99, 100>>, 2>>}

InitClassic ==
    \E c \in ClassicCalls, p \in ClassicParams :
        /\ ~NewCountMin(c[1], c[2], c[3], p[1], p[2]).err
        /\ sk = NewCountMin(c[1], c[2], c[3], p[1], p[2]).sketch

DoAdd ==
    \E key \in LogKeys :
        \E minKey \in MinKeys(sk.topk) :
            sk' = Add(sk, key, minKey)

DoClassicReset == sk' = ClassicReset(sk)

NextClassic == DoAdd \/ DoClassicReset

SpecClassic == InitClassic /\ [][NextClassic]_vars

\* ----------------------------------------------------------- SpecLegacy
\* The legacy Sketch8 (part_004) and Sketch16 (log16.go): k rows of w
\* registers and the policy flags conservative, maxSample and progressive.
\* In SpecLegacy sk is one sketch record.  Both register types are scaled to
\* T: math.MaxUint8 and math.MaxUint16 are the bound cMax, and the field cMax
\* of a sketch is 2^nBits - 1.
MaxTotal == 6

\* farmhash.Hash64 of the row number followed by the key, modulo w.
hash(s, i, w) == (s * i) % w

value8(c, exp) == IF c = 0 THEN <<0, 1>> ELSE RatPow(exp, c - 1)

fullValue8(c, exp) ==
    IF c <= 1 THEN value8(c, exp)
    ELSE RatDiv(RatSub(<<1, 1>>, value8(T(c + 1), exp)), RatSub(<<1, 1>>, exp))

\* NewSketch8 and NewSketch16, told apart by kind.
NewLegacy(kind, w, k, conservative, exp, maxSample, progressive, nBits) ==
    IF Pow(2, nBits) - 1 > cMax THEN [err |-> TRUE]
    ELSE [err |-> FALSE,
          sketch |-> [kind |-> kind, w |-> w, k |-> k,
                      conservative |-> conservative, exp |-> exp,
                      maxSample |-> maxSample, progressive |-> progressive,
                      nBits |-> nBits,
                      store |-> [i \in 0 .. (k - 1) |-> [j \in 0 .. (w - 1) |-> 0]],
                      totalCount |-> 0,
                      cMax |-> Pow(2, nBits) - 1]]

NewSketch8(w, k, conservative, exp, maxSample, progressive, nBits) ==
    NewLegacy("Sketch8", w, k, conservative, exp, maxSample, progressive, nBits)

NewSketch16(w, k, conservative, exp, maxSample, progressive, nBits) ==
    NewLegacy("Sketch16", w, k, conservative, exp, maxSample, progressive, nBits)

\* sk.getExp(c), for cMax >= 1 when progressive.
getExp(h, c) ==
    IF h.progressive
    THEN RatSub(<<1, 1>>,
                RatSub(<<0, 1>>,
                       RatDiv(RatMul(RatSub(h.exp, <<1, 1>>), <<c - 1, 1>>),
                              <<h.cMax, 1>>)))
    ELSE h.exp

\* sk.randomLog(c) on the draw r of randFloat().
randomLog(h, c, r) ==
    LET diff == RatSub(fullValue8(T(c + 1), getExp(h, T(c + 1))),
                       fullValue8(c, getExp(h, c)))
    IN IF diff[1] = 0 THEN TRUE
       ELSE RatLt(r, RatDiv(<<1, 1>>, diff))

\* The registers v[i] of the key s.
Regs(h, s) == [i \in 0 .. (h.k - 1) |-> h.store[i][hash(s, i, h.w)]]

\* vmin and vmax after the rows i .. k - 1 of the first loop of
\* IncreaseCount: Sketch8 compares with vmax only when v[i] is no new minimum.
RECURSIVE MinMax(_, _, _, _, _)
MinMax(h, v, i, vmin, vmax) ==
    IF i >= h.k THEN [vmin |-> vmin, vmax |-> vmax]
    ELSE IF h.kind = "Sketch8"
    THEN MinMax(h, v, i + 1,
                IF v[i] < vmin THEN v[i] ELSE vmin,
                IF ~(v[i] < vmin) /\ v[i] > vmax THEN v[i] ELSE vmax)
    ELSE MinMax(h, v, i + 1,
                IF v[i] < vmin THEN v[i] ELSE vmin,
                IF v[i] > vmax THEN v[i] ELSE vmax)

\* vmin, the smallest of the key's registers.
StageMin(h, s) == MinMax(h, Regs(h, s), 0, cMax, 0).vmin

\* The stage c that IncreaseCount(s) passes to randomLog.
Stage(h, s) ==
    LET mm == MinMax(h, Regs(h, s), 0, cMax, 0)
    IN IF h.maxSample THEN mm.vmax ELSE mm.vmin

\* sk.IncreaseCount(s) on the draw r.
IncreaseCount(h, s, r) ==
    LET h1 == [h EXCEPT !.totalCount = @ + 1]
        v == Regs(h, s)
        mm == MinMax(h, v, 0, cMax, 0)
        c == Stage(h, s)
    IN IF c > h.cMax THEN [sketch |-> h1, ret |-> FALSE, val |-> <<0, 1>>]
       ELSE IF randomLog(h, c, r)
       THEN [sketch |->
                [h1 EXCEPT !.store =
                    [i \in 0 .. (h.k - 1) |->
                        [j \in 0 .. (h.w - 1) |->
                            IF j = hash(s, i, h.w)
                               /\ (~h.conservative \/ mm.vmin = v[i])
                            THEN T(v[i] + 1) ELSE h.store[i][j]]]],
             ret |-> TRUE,
             val |-> fullValue8(T(mm.vmin + 1), getExp(h, T(mm.vmin + 1)))]
       ELSE [sketch |-> h1, ret |-> FALSE,
             val |-> fullValue8(mm.vmin, getExp(h, mm.vmin))]

\* sk.Frequency(s) of Sketch16, sk.GetCount(s) of Sketch8.
Frequency(h, s) ==
    LET c == Min({cMax} \cup {Regs(h, s)[i] : i \in 0 .. (h.k - 1)})
    IN fullValue8(c, getExp(h, c))

\* sk.Reset() of a legacy sketch.
LegacyReset(h) ==
    [h EXCEPT !.store = [i \in 0 .. (h.k - 1) |-> [j \in 0 .. (h.w - 1) |-> 0]],
              !.totalCount = 0]

\* The header of Marshall: three flag bytes, then w, k, nBits, totalCount,
\* exp and cMax in 8 bytes each.
HeaderSize16 == 51

Flag(b) == IF b THEN <<1>> ELSE <<0>>

\* sk.Marshall() of a Sketch16: the header, then the registers row by row,
\* two bytes each.
Marshall(h) ==
    Flag(h.maxSample) \o Flag(h.progressive) \o Flag(h.conservative)
    \o PutUint(h.w, 8) \o PutUint(h.k, 8) \o PutUint(h.nBits, 8)
    \o PutUint(h.totalCount, 8) \o PutUint(Float64bits(h.exp), 8)
    \o PutUint(Float64bits(<<h.cMax, 1>>), 8)
    \o [p \in 1 .. (h.k * h.w * 2) |->
          PutUint(h.store[(p - 1) \div (h.w * 2)][((p - 1) % (h.w * 2)) \div 2],
                  2)[((p - 1) % 2) + 1]]

\* Unmarshall16(b) on a slice b whose capacity is its length: a slice
\* expression that ends past the length panics, in the header (b[0:1] ..
\* b[43:51]) or at a register (b[pos : pos+2]); binary.Read of a reader that
\* holds the value's bytes returns no error.  cMax is read for the integral
\* values Marshall writes.
Unmarshall16(b) ==
    IF Len(b) < HeaderSize16 THEN [panic |-> TRUE, err |-> FALSE]
    ELSE LET w == GetUint(b, 3, 8)
             k == GetUint(b, 11, 8)
         IN IF w * k > 0 /\ Len(b) < HeaderSize16 + 2 * w * k
            THEN [panic |-> TRUE, err |-> FALSE]
            ELSE [panic |-> FALSE, err |-> FALSE,
                  sketch |->
                    [kind |-> "Sketch16", w |-> w, k |-> k,
                     conservative |-> b[3] > 0,
                     exp |-> Float64frombits(GetUint(b, 35, 8)),
                     maxSample |-> b[1] > 0, progressive |-> b[2] > 0,
                     nBits |-> GetUint(b, 19, 8),
                     store |-> [i \in 0 .. (k - 1) |-> [j \in 0 .. (w - 1) |->
                         GetUint(b, HeaderSize16 + i * w * 2 + j * 2, 2)]],
                     totalCount |-> GetUint(b, 27, 8),
                     cMax |-> Float64frombits(GetUint(b, 43, 8))[1]]]

\* The constructor calls: both kinds, every flag combination, nBits from 0
\* to one past the register width; progressive only with nBits >= 1, where
\* getExp divides by a nonzero cMax.
LegacyCalls ==
    {c \in [kind : {"Sketch8", "Sketch16"}, dims : {<<2, 2>>, <<2, 1>>},
            conservative : BOOLEAN, maxSample : BOOLEAN, progressive : BOOLEAN,
            nBits : 0 .. 3] :
        c.progressive => c.nBits >= 1}

ConstructLegacy(c) ==
    IF c.kind = "Sketch8"
    THEN NewSketch8(c.dims[1], c.dims[2], c.conservative, <<3, 2>>,
                    c.maxSample, c.progressive, c.nBits)
    ELSE NewSketch16(c.dims[1], c.dims[2], c.conservative, <<3, 2>>,
                     c.maxSample, c.progressive, c.nBits)

InitLegacy ==
    \E c \in LegacyCalls :
        /\ ~ConstructLegacy(c).err
        /\ sk = ConstructLegacy(c).sketch

DoIncreaseCount ==
    \E s \in Keys, r \in Draws :
        /\ sk.totalCount < MaxTotal
        /\ sk' = IncreaseCount(sk, s, r).sketch

DoLegacyReset == sk' = LegacyReset(sk)

\* A Sketch16 is replaced by what Unmarshall16 makes of its own Marshall
\* output or of a prefix of it.
DoUnmarshall16 ==
    /\ sk.kind = "Sketch16"
    /\ \E n \in 0 .. Len(Marshall(sk)) :
         LET res == Unmarshall16(SubSeq(Marshall(sk), 1, n)) IN
         /\ ~res.panic /\ ~res.err
         /\ sk' = res.sketch

NextLegacy == DoIncreaseCount \/ DoLegacyReset \/ DoUnmarshall16

SpecLegacy == InitLegacy /\ [][NextLegacy]_vars

\* ------------------------------------------------------------- SpecCtor8
\* A Sketch8 as its convenience constructors return it.  In SpecCtor8 sk
\* holds the constructor call, nil (the call returned an error and no
\* sketch) and, when not nil, the sketch.
\* The nBits the constructors pass, on the model's scale: 8 is the width of
\* the register type, the largest nBits NewSketch8 accepts, and 16 is twice
\* that.
Bits8 == CHOOSE n \in 0 .. cMax : Pow(2, n) - 1 <= cMax /\ Pow(2, n + 1) - 1 > cMax

Bits16 == 2 * Bits8

\* The width 1000000 and the depth 7 of the default sketches, scaled.
DefaultW == 2

DefaultK == 2

NewSketch8ForEpsilonDelta(epsilon, delta) ==
    LET width == Ceil(RatDiv(MathE, epsilon))
        depth == CeilLog(RatDiv(<<1, 1>>, delta))
    IN NewSketch8(width, depth, TRUE, <<100026, 100000>>, TRUE, TRUE, Bits16)

NewDefaultSketch8 == NewSketch8(DefaultW, DefaultK, TRUE, <<3, 2>>, TRUE, TRUE, Bits8)

NewForCapacity8(capacity, e) ==
    IF ~(FloatLe(<<1, 1000>>, e) /\ FloatLt(e, <<1, 1>>)) THEN [err |-> TRUE]
    ELSE NewSketch8((2 * capacity * e[2]) \div e[1], DefaultK, TRUE, <<3, 2>>,
                    TRUE, TRUE, Bits8)

Calls8 ==
    {[f |-> "NewDefaultSketch8"],
     [f |-> "NewSketch8ForEpsilonDelta", epsilon |-> <<99, 100>>, delta |-> <<1, 2>>],
     [f |-> "NewSketch8ForEpsilonDelta", epsilon |-> <<9, 10>>, delta |-> <<1, 4>>],
     [f |-> "NewForCapacity8", capacity |-> 1, e |-> <<1, 2>>],
     [f |-> "NewForCapacity8", capacity |-> 1, e |-> <<9, 10>>],
     [f |-> "NewForCapacity8", capacity |-> 2, e |-> <<9, 10>>],
     [f |-> "NewForCapacity8", capacity |-> 2, e |-> <<1, 2>>],
     [f |-> "NewForCapacity8", capacity |-> 1, e |-> <<1, 1>>]}

Construct8(c) ==
    CASE c.f = "NewDefaultSketch8" -> NewDefaultSketch8
      [] c.f = "NewSketch8ForEpsilonDelta" ->
            NewSketch8ForEpsilonDelta(c.epsilon, c.delta)
      [] c.f = "NewForCapacity8" -> NewForCapacity8(c.capacity, c.e)

InitCtor8 ==
    \E c \in Calls8 :
        sk = IF Construct8(c).err THEN [call |-> c, nil |-> TRUE]
             ELSE [call |-> c, nil |-> FALSE, sketch |-> Construct8(c).sketch]

DoIncreaseCount8 ==
    \E s \in Keys, r \in Draws :
        /\ ~sk.nil
        /\ sk.sketch.totalCount < MaxTotal
        /\ sk' = [sk EXCEPT !.sketch = IncreaseCount(@, s, r).sketch]

DoReset8 ==
    /\ ~sk.nil
    /\ sk' = [sk EXCEPT !.sketch = LegacyReset(@)]

NextCtor8 == DoIncreaseCount8 \/ DoReset8

SpecCtor8 == InitCtor8 /\ [][NextCtor8]_vars

\* ------------------------------------------------------------- claims
\* The sketches on which Update, BulkUpdate and Query compute their indices
\* without panicking.
Usable == {s \in Sketches : ~IndexPanics(sk[s])}

Freqs == 0 .. MaxFreq

DrawSeqs(freq) == [1 .. freq -> Draws]

\* The values of the key's cells, and whether all cells of a sketch hold v.
KeyVals(cml, k) == {cml.store[x] : x \in KeyIdxs(cml, Hash64(k))}

\* After the call that turns heap h into heap h2, every register is in
\* 0 .. cMax and a register that held cMax still holds it.
InRange(h) == \A s \in Sketches : \A i \in DOMAIN h[s].store : h[s].store[i] \in 0 .. cMax

NoWrap(h, h2) ==
    \A s \in Sketches : \A i \in DOMAIN h[s].store :
        h[s].store[i] = cMax => h2[s].store[i] = cMax

\* C1: in every reachable state every register c satisfies 0 <= c <= cMax,
\* and no Update, BulkUpdate or Merge call made in that state takes a
\* register past cMax: its result is in range again and a register that
\* held cMax still holds cMax (it did not wrap).
C1_RegistersInRange ==
    /\ InRange(sk)
    /\ \A s \in Sketches, k \in Keys :
        /\ \A r \in Draws :
             LET h2 == Update(sk, s, Hash64(k), r).heap
             IN InRange(h2) /\ NoWrap(sk, h2)
        /\ \A freq \in Freqs : \A rs \in DrawSeqs(freq) :
             LET h2 == BulkUpdate(sk, s, Hash64(k), freq, rs).heap
             IN InRange(h2) /\ NoWrap(sk, h2)
    /\ \A s \in Sketches, o \in Sketches :
         LET h2 == Merge(sk, s, o).heap
         IN InRange(h2) /\ NoWrap(sk, h2)

\* C1's case: a sketch of two rows and two columns in which every cell
\* that a key hashes to holds cMax, so that every further Update or
\* BulkUpdate on it meets saturated registers only.
C1_Witness ==
    \E s \in Usable :
        /\ sk[s].d = 2 /\ sk[s].w = 2
        /\ \A k \in Keys : KeyVals(sk[s], k) = {cMax}

\* C2: in every Update, BulkUpdate or Merge step, every cell's value after
\* the step is greater than or equal to its value before the step.
C2_NeverDecremented ==
    [][\A s \in Sketches : \A i \in DOMAIN sk[s].store :
          sk'[s].store[i] >= sk[s].store[i]]_vars

\* C2's case: after increments and merges, a sketch holds a saturated cell
\* beside a cell that is neither empty nor saturated.
C2_Witness ==
    \E s \in Sketches : \E i, j \in DOMAIN sk[s].store :
        /\ sk[s].store[i] = cMax
        /\ sk[s].store[j] > 0 /\ sk[s].store[j] < cMax

\* C3: for every key q, Query(q) after an Update or BulkUpdate call (on q
\* or on another key) is greater than or equal to Query(q) before it.
C3_QueryMonotone ==
    \A s \in Usable, k \in Keys :
        /\ \A r \in Draws :
             LET after == Update(sk, s, Hash64(k), r).heap[s]
             IN \A q \in Keys :
                  RatLe(Query(sk[s], Hash64(q)), Query(after, Hash64(q)))
        /\ \A freq \in Freqs : \A rs \in DrawSeqs(freq) :
             LET after == BulkUpdate(sk, s, Hash64(k), freq, rs).heap[s]
             IN \A q \in Keys :
                  RatLe(Query(sk[s], Hash64(q)), Query(after, Hash64(q)))

\* C3's case: an Update on one key strictly raises the Query of another
\* key, and a key is at the last stage below saturation, where an accepted
\* Update leaves its Query as it is.
C3_Witness ==
    /\ \E s \in Usable, k \in Keys, q \in Keys, r \in Draws :
        /\ k # q
        /\ RatLt(Query(sk[s], Hash64(q)),
                 Query(Update(sk, s, Hash64(k), r).heap[s], Hash64(q)))
    /\ \E s \in Usable, k \in Keys, r \in Draws :
        /\ sk[s].d > 0
        /\ MinVal(sk[s], Hash64(k)) = cMax - 1
        /\ Update(sk, s, Hash64(k), r).ret

\* C4: on a sketch with W >= 1 and D >= 1, Update returns true iff the
\* call changed a register, and so does BulkUpdate; BulkUpdate with
\* freq = 0 returns false and changes nothing.
C4_ReturnIffChanged ==
    \A s \in Sketches, k \in Keys :
        (sk[s].w >= 1 /\ sk[s].d >= 1) =>
            /\ \A r \in Draws :
                 LET res == Update(sk, s, Hash64(k), r)
                 IN res.ret <=> (res.heap # sk)
            /\ \A freq \in Freqs : \A rs \in DrawSeqs(freq) :
                 LET res == BulkUpdate(sk, s, Hash64(k), freq, rs)
                 IN /\ res.ret <=> (res.heap # sk)
                    /\ freq = 0 => (~res.ret /\ res.heap = sk)

\* C4's case: a key below saturation at a stage >= 1, where one draw makes
\* Update return true and another makes it return false, and a BulkUpdate
\* with freq > 0 whose draws all fail.
C4_Witness ==
    \E s \in Sketches, k \in Keys :
        /\ sk[s].w >= 1 /\ sk[s].d >= 1
        /\ MinVal(sk[s], Hash64(k)) >= 1
        /\ \E r \in Draws : Update(sk, s, Hash64(k), r).ret
        /\ \E r \in Draws : ~Update(sk, s, Hash64(k), r).ret
        /\ \E rs \in DrawSeqs(MaxFreq) : ~BulkUpdate(sk, s, Hash64(k), MaxFreq, rs).ret

\* C5: whenever the minimum of the registers a key hashes to equals cMax,
\* Update(key) and BulkUpdate(key, freq), for every freq and every draw,
\* return false and leave every cell of the store unchanged.
C5_SaturatedRejects ==
    \A s \in Usable, k \in Keys :
        MinVal(sk[s], Hash64(k)) = cMax =>
            /\ \A r \in Draws :
                 LET res == Update(sk, s, Hash64(k), r)
                 IN ~res.ret /\ res.heap = sk
            /\ \A freq \in Freqs : \A rs \in DrawSeqs(freq) :
                 LET res == BulkUpdate(sk, s, Hash64(k), freq, rs)
                 IN ~res.ret /\ res.heap = sk

\* C5's case: a key whose cells all hold cMax in a sketch with D >= 1,
\* while another key of the same sketch is not saturated.
C5_Witness ==
    \E s \in Usable, k \in Keys, q \in Keys :
        /\ sk[s].d >= 1
        /\ MinVal(sk[s], Hash64(k)) = cMax
        /\ MinVal(sk[s], Hash64(q)) < cMax

\* C6: an accepted Update(key) sets exactly the key's cells that held the
\* pre-call minimum minVal to minVal + 1 and leaves every other cell (the
\* key's cells above minVal, the cells the key does not hash to, the other
\* sketch) as it was; a rejected Update leaves the whole store unchanged.
C6_ConservativeUpdate ==
    \A s \in Usable, k \in Keys, r \in Draws :
        LET cml == sk[s]
            res == Update(sk, s, Hash64(k), r)
            minVal == MinVal(cml, Hash64(k))
            cells == KeyIdxs(cml, Hash64(k))
        IN IF res.ret
           THEN /\ DOMAIN res.heap[s].store = DOMAIN cml.store
                /\ \A i \in DOMAIN cml.store :
                     res.heap[s].store[i] =
                        IF i \in cells /\ cml.store[i] = minVal THEN minVal + 1
                        ELSE cml.store[i]
                /\ \A t \in Sketches \ {s} : res.heap[t] = sk[t]
           ELSE res.heap = sk

\* C6's case: an Update is accepted on a key one of whose cells is above
\* the minimum of its cells.
C6_Witness ==
    \E s \in Usable, k \in Keys, r \in Draws :
        /\ Update(sk, s, Hash64(k), r).ret
        /\ Cardinality(KeyVals(sk[s], k)) > 1

\* C7: after a successful A.Merge(B) every cell i of A holds
\* max(A_old.store[i], B.store[i]), A's W, D and exp are unchanged, and B
\* is unchanged.
C7_MergeIsMax ==
    \A s \in Sketches, o \in Sketches :
        LET res == Merge(sk, s, o) IN
        ~res.err =>
            /\ DOMAIN res.heap[s].store = DOMAIN sk[s].store
            /\ \A i \in DOMAIN sk[s].store :
                 res.heap[s].store[i] = Max(sk[s].store[i], sk[o].store[i])
            /\ res.heap[s].w = sk[s].w
            /\ res.heap[s].d = sk[s].d
            /\ res.heap[s].exp = sk[s].exp
            /\ res.heap[o] = IF o = s THEN res.heap[s] ELSE sk[o]
            /\ (o = s) => res.heap = sk

\* C7's case: two compatible sketches, each holding a cell greater than the
\* other's.
C7_Witness ==
    /\ ~Merge(sk, "A", "B").err
    /\ \E i \in DOMAIN sk["A"].store : sk["A"].store[i] > sk["B"].store[i]
    /\ \E i \in DOMAIN sk["A"].store : sk["A"].store[i] < sk["B"].store[i]

\* C8: A.Merge(B) returns an error iff A and B differ in W, in D or in
\* exp, and a Merge that returns an error leaves both sketches unchanged.
C8_MergeErrorIffMismatch ==
    \A s \in Sketches, o \in Sketches :
        LET res == Merge(sk, s, o) IN
        /\ res.err <=> (sk[s].w # sk[o].w \/ sk[s].d # sk[o].d \/ sk[s].exp # sk[o].exp)
        /\ res.err => res.heap = sk

\* C8's case: sketches of the same W and D and of different exp, both
\* holding nonzero registers, so that Merge fails on exp alone.
C8_Witness ==
    /\ sk["A"].w = sk["B"].w /\ sk["A"].d = sk["B"].d
    /\ sk["A"].exp # sk["B"].exp
    /\ Merge(sk, "A", "B").err
    /\ \E i \in DOMAIN sk["A"].store : sk["A"].store[i] > 0
    /\ \E i \in DOMAIN sk["B"].store : sk["B"].store[i] > sk["A"].store[i]

\* C9: for compatible sketches A and B, a clone of A with B merged into it
\* and a clone of B with A merged into it have pointwise equal stores.
C9_MergeCommutes ==
    LET c == Merge(sk, "A", "B")
        d == Merge(sk, "B", "A")
    IN (~c.err /\ ~d.err) => c.heap["A"].store = d.heap["B"].store

\* C9's case: compatible sketches whose merge differs from both of them.
C9_Witness ==
    LET c == Merge(sk, "A", "B") IN
    /\ ~c.err
    /\ c.heap["A"].store # sk["A"].store
    /\ c.heap["A"].store # sk["B"].store

\* C10: merging into A a copy of A leaves every cell of A unchanged, and
\* merging the same sketch into A a second time changes nothing more.
C10_MergeIdempotent ==
    /\ \A s \in Sketches, o \in Sketches :
         LET copied == [sk EXCEPT ![o] = sk[s]]
             res == Merge(copied, s, o)
         IN ~res.err /\ res.heap = copied
    /\ \A s \in Sketches, o \in Sketches :
         LET once == Merge(sk, s, o)
             twice == Merge(once.heap, s, o)
         IN ~once.err => (~twice.err /\ twice.heap = once.heap)

\* C10's case: a sketch with nonzero registers (its copy merges into it),
\* and a compatible second sketch whose first merge changes it.
C10_Witness ==
    /\ \E i \in DOMAIN sk["A"].store : sk["A"].store[i] >= 2
    /\ ~Merge(sk, "A", "B").err
    /\ Merge(sk, "A", "B").heap # sk

\* The closed form of the estimate for a minimum register c and base exp.
Estimate(exp, c) ==
    CASE c = 0 -> <<0, 1>>
      [] c = 1 -> <<1, 1>>
      [] c = cMax /\ c > 1 ->
           RatDiv(RatSub(<<1, 1>>, RatPow(exp, c - 1)), RatSub(<<1, 1>>, exp))
      [] OTHER -> RatDiv(RatSub(<<1, 1>>, RatPow(exp, c)), RatSub(<<1, 1>>, exp))

\* C13: Query(key) returns, for c the minimum of the key's D registers,
\* 0 if c = 0, 1 if c = 1, (1 - exp^(c-1)) / (1 - exp) if c = cMax and
\* (1 - exp^c) / (1 - exp) for 2 <= c < cMax; c does not wrap at cMax.
C13_QueryClosedForm ==
    \A s \in Usable, k \in Keys :
        LET c == Min({cMax} \cup KeyVals(sk[s], k))
        IN RatEq(Query(sk[s], Hash64(k)), Estimate(sk[s].exp, c))

\* C13's case: one key whose minimum register is cMax and one whose
\* minimum register is strictly between 1 and cMax, on sketches with rows.
C13_Witness ==
    /\ \E s \in Usable, k \in Keys :
          sk[s].d > 0 /\ Min(KeyVals(sk[s], k)) = cMax
    /\ \E s \in Usable, k \in Keys :
          sk[s].d > 0 /\ Min(KeyVals(sk[s], k)) > 1 /\ Min(KeyVals(sk[s], k)) < cMax

\* C14 as stated: Query(key) >= 0, and Query(key) = 0 if and only if all D
\* cells the key hashes to are 0 (on sketches with at least one row).
C14_ZeroIffAllCellsZero ==
    \A s \in Usable, k \in Keys :
        sk[s].d > 0 =>
          /\ RatLe(<<0, 1>>, Query(sk[s], Hash64(k)))
          /\ RatEq(Query(sk[s], Hash64(k)), <<0, 1>>) <=> (KeyVals(sk[s], k) = {0})

\* C14 amended: Query(key) >= 0, and Query(key) = 0 if and only if the
\* minimum of the key's D cells is 0, that is, at least one of them is 0.
C14_ZeroIffMinZero ==
    \A s \in Usable, k \in Keys :
        /\ RatLe(<<0, 1>>, Query(sk[s], Hash64(k)))
        /\ RatEq(Query(sk[s], Hash64(k)), <<0, 1>>) <=> (0 \in KeyVals(sk[s], k))

\* C14's case: a key with an empty cell beside a nonempty one (its estimate
\* is 0), and a key whose cells are all nonempty.
C14_Witness ==
    \E s \in Usable, k \in Keys, q \in Keys :
        /\ 0 \in KeyVals(sk[s], k) /\ KeyVals(sk[s], k) # {0}
        /\ KeyVals(sk[s], q) # {} /\ 0 \notin KeyVals(sk[s], q)

\* C15 as stated: whenever Update(key) returns true, Query(key) right after
\* the call is strictly greater than Query(key) right before it.
C15_UpdateRaisesQuery ==
    \A s \in Usable, k \in Keys, r \in Draws :
        LET res == Update(sk, s, Hash64(k), r)
        IN res.ret => RatLt(Query(sk[s], Hash64(k)), Query(res.heap[s], Hash64(k)))

\* C15 amended: whenever Update(key) returns true, Query(key) right after
\* the call is strictly greater than before it, except that the step of
\* the key's minimum register from cMax - 1 to cMax leaves Query(key) as
\* it was.
C15_UpdateRaisesQueryBelowLast ==
    \A s \in Usable, k \in Keys, r \in Draws :
        LET res == Update(sk, s, Hash64(k), r)
            before == Query(sk[s], Hash64(k))
            after == Query(res.heap[s], Hash64(k))
        IN res.ret =>
             IF MinVal(sk[s], Hash64(k)) = cMax - 1 /\ cMax > 1
             THEN RatEq(before, after)
             ELSE RatLt(before, after)

\* C15's case: a key at minimum cMax - 1 whose Update is accepted, and a key
\* at a lower nonzero minimum whose Update is accepted.
C15_Witness ==
    /\ \E s \in Usable, k \in Keys, r \in Draws :
          /\ MinVal(sk[s], Hash64(k)) = cMax - 1
          /\ Update(sk, s, Hash64(k), r).ret
    /\ \E s \in Usable, k \in Keys, r \in Draws :
          /\ MinVal(sk[s], Hash64(k)) > 0
          /\ MinVal(sk[s], Hash64(k)) < cMax - 1
          /\ Update(sk, s, Hash64(k), r).ret

\* The sketches of SpecFull that exist, those among them with at least one
\* row, at least one column and exp > 1.0, and the keys' estimates on a
\* sketch.
Live == {s \in Sketches : ~sk[s].nil}

Sound ==
    {s \in Live : sk[s].w >= 1 /\ sk[s].d >= 1 /\ FloatLt(<<1, 1>>, sk[s].exp)}

Estimates(cml) == [k \in Keys |-> Query(cml, Hash64(k))]

\* C11 as stated: decoding the encoding of a sketch S of at least one row
\* and one column and of exp > 1.0 (here into B) succeeds and yields S's W, D, exp and store,
\* cell by cell, and the same Query(k) for every key k.
C11_RoundTrip ==
    \A s \in Sound :
        LET S == sk[s]
            res == UnmarshalBinary(sk, "B", MarshalBinary(S))
            R == res.heap["B"]
        IN /\ ~res.err /\ ~res.panic
           /\ R.w = S.w /\ R.d = S.d /\ R.exp = S.exp /\ R.store = S.store
           /\ Estimates(R) = Estimates(S)

\* C12 as stated: UnmarshalBinary returns an error whenever the input is
\* shorter than the header or its length differs from 16 + W*D*sizeof(T) for
\* the W and D of its header or the header's exp is <= 1.0, and on every
\* error return the receiver is as before the call.
C12_ErrorOnCorruptInput ==
    "A" \in Sound =>
      \A data \in Inputs(sk) :
        LET res == UnmarshalBinary(sk, "A", data)
            short == Len(data) < HeaderSize
            mismatch ==
                Len(data) # HeaderSize + GetUint(data, 0, 4) * GetUint(data, 4, 4) * SizeofT
            badExp == FloatLe(Float64frombits(GetUint(data, 8, 8)), <<1, 1>>)
        IN /\ (short \/ mismatch \/ badExp) => res.err
           /\ res.err => res.heap = sk

\* A run of n Update calls on h[s] for the key of hash hs, drawing from rs
\* in order from position p: the heap after them, the number of draws made
\* and whether one of the calls returned true.
RECURSIVE UpdateTimes(_, _, _, _, _, _, _)
UpdateTimes(h, s, hs, rs, n, p, any) ==
    IF n = 0 THEN [heap |-> h, draws |-> p, ret |-> any]
    ELSE LET drew == UpdateDraws(h, s, hs)
             res == Update(h, s, hs, IF drew = 1 THEN rs[p + 1] ELSE <<0, 1>>)
         IN UpdateTimes(res.heap, s, hs, rs, n - 1, p + drew, any \/ res.ret)

\* C16: from the same store and the same position in the same sequence
\* of draws, BulkUpdate(key, freq) and freq consecutive Update(key) calls
\* leave the same store, have made the same number of draws (one per
\* logical increment on a register that is not saturated), and BulkUpdate
\* returns true exactly when one of the Update calls returns true.
C16_BulkIsRepeatedUpdate ==
    \A s \in Usable, k \in Keys, freq \in Freqs : \A rs \in DrawSeqs(freq) :
        LET bulk == BulkUpdate(sk, s, Hash64(k), freq, rs)
            single == UpdateTimes(sk, s, Hash64(k), rs, freq, 0, FALSE)
        IN /\ bulk.heap = single.heap
           /\ bulk.draws = single.draws
           /\ bulk.ret = single.ret

\* C16's case: a key one step below saturation, so that a BulkUpdate of two
\* increments makes one draw only, and a key on which a BulkUpdate has a
\* rejected draw followed by an accepted one.
C16_Witness ==
    /\ \E s \in Usable, k \in Keys : \E rs \in DrawSeqs(MaxFreq) :
          /\ MinVal(sk[s], Hash64(k)) = cMax - 1
          /\ BulkUpdate(sk, s, Hash64(k), MaxFreq, rs).draws = 1
    /\ \E s \in Usable, k \in Keys : \E rs \in DrawSeqs(MaxFreq) :
          /\ ~increaseDecision(sk[s], MinVal(sk[s], Hash64(k)), rs[1])
          /\ BulkUpdate(sk, s, Hash64(k), MaxFreq, rs).ret

\* Whether x lies in the open interval (0, 1).
InUnit(x) == FloatLt(<<0, 1>>, x) /\ FloatLt(x, <<1, 1>>)

\* C17 as stated: NewSketch(W, D, exp) returns no sketch if and only if
\* exp <= 1.0, NewForCapacity returns no sketch when errorRate is outside
\* [0.001, 1.0), and every sketch that exists has exp > 1.0.
C17_ConstructorsReject ==
    \A s \in Sketches :
        LET c == sk[s].call IN
        /\ c.fn = "NewSketch" => (sk[s].nil <=> FloatLe(c.args[3], <<1, 1>>))
        /\ (c.fn = "NewForCapacity"
              /\ ~(FloatLe(<<1, 1000>>, c.args[2]) /\ FloatLt(c.args[2], <<1, 1>>)))
             => sk[s].nil
        /\ ~sk[s].nil => FloatLt(<<1, 1>>, sk[s].exp)

\* C18 as stated: NewSketchForEpsilonDelta(epsilon, delta) returns no sketch
\* whenever epsilon or delta is outside the open interval (0, 1).
C18_EpsilonDeltaReject ==
    \A s \in Sketches :
        LET c == sk[s].call IN
        (c.fn = "NewSketchForEpsilonDelta" /\ ~(InUnit(c.args[1]) /\ InUnit(c.args[2])))
          => sk[s].nil

\* C19 as stated: every sketch NewSketch returned, also after a successful
\* UnmarshalBinary into it, has W >= 1, D >= 1 and a store of W*D cells, and
\* Update and BulkUpdate on it do not panic.
C19_PositiveDimensions ==
    \A s \in Live :
        sk[s].call.fn = "NewSketch" =>
          /\ sk[s].w >= 1 /\ sk[s].d >= 1
          /\ StoreLen(sk[s].store) = sk[s].w * sk[s].d
          /\ \A k \in Keys :
               /\ ~UpdateRng(sk, s, Hash64(k)).panic
               /\ ~BulkUpdateRng(sk, s, Hash64(k), 1).panic

\* C20 as stated: after a successful UnmarshalBinary the receiver's
\* generator is in the state it was in before the call.
C20_RngKept ==
    "A" \in Sound =>
      \A data \in Inputs(sk) :
        LET res == UnmarshalBinary(sk, "A", data)
        IN (~res.err /\ ~res.panic) => res.heap["A"].rng = sk["A"].rng

\* C20 amended: a successful UnmarshalBinary replaces W, D, exp, the store
\* and the generator of the receiver: after the call the generator is a new
\* one seeded with the W and D of the header, at the start of its sequence,
\* so the next Update draws the first value of that sequence.
C20_RngReseeded ==
    "A" \in Live =>
      \A data \in Inputs(sk) :
        LET res == UnmarshalBinary(sk, "A", data)
            after == res.heap["A"]
        IN (~res.err /\ ~res.panic) =>
             /\ after.w = GetUint(data, 0, 4) /\ after.d = GetUint(data, 4, 4)
             /\ after.rng = NewPCG(after.w, after.d)
             /\ \A k \in Keys :
                  UpdateRng(res.heap, "A", Hash64(k)).heap["A"].store
                    = Update(res.heap, "A", Hash64(k),
                             Float64(NewPCG(after.w, after.d))).heap["A"].store

\* C20's case: a receiver that has made draws decodes the encoding of a
\* sketch of another shape.
C20_Witness ==
    /\ "A" \in Live
    /\ sk["A"].rng.pos > 0
    /\ \E data \in Inputs(sk) :
          LET res == UnmarshalBinary(sk, "A", data)
          IN /\ ~res.err /\ ~res.panic
             /\ res.heap["A"].w # sk["A"].w
             /\ res.heap["A"].d > 0

\* C22: after a successful A.Merge(B), for every key k, Query_A(k) is at
\* least Query_A(k) before the merge and at least Query_B(k).
C22_MergeQueryAtLeastMax ==
    \A s \in Usable, o \in Sketches :
        LET res == Merge(sk, s, o)
            after == res.heap[s]
        IN ~res.err =>
             \A k \in Keys :
                 /\ RatLe(Query(sk[s], Hash64(k)), Query(after, Hash64(k)))
                 /\ RatLe(Query(sk[o], Hash64(k)), Query(after, Hash64(k)))

\* C22's case: a successful merge of sketches with rows in which one key's
\* estimate is larger in A and another key's estimate is larger in B.
C22_Witness ==
    /\ "A" \in Usable /\ sk["A"].d > 0
    /\ ~Merge(sk, "A", "B").err
    /\ \E k \in Keys, q \in Keys :
          /\ RatLt(Query(sk["A"], Hash64(k)), Query(sk["B"], Hash64(k)))
          /\ RatLt(Query(sk["B"], Hash64(q)), Query(sk["A"], Hash64(q)))

\* Every pair of hash halves.
HashPairs == [h1 : 0 .. (HashMod - 1), h2 : 0 .. (HashMod - 1)]

\* The cells of the index formula with h1 + i*h2 as an unbounded integer,
\* and with h1 + i*h2 reduced modulo 2^32 (here HashMod) before mod W.
IntegerCells(cml, hs) ==
    {i * cml.w + ((hs.h1 + i * hs.h2) % cml.w) : i \in Rows(cml)}

WrappedCells(cml, hs) ==
    {i * cml.w + (((hs.h1 + i * hs.h2) % HashMod) % cml.w) : i \in Rows(cml)}

\* The cells in which the stores of sketch s differ between heaps h and h2.
Changed(h, h2, s) == {x \in DOMAIN h[s].store : h[s].store[x] # h2[s].store[x]}

\* Update, BulkUpdate and Query on sketch s with hash halves hs address
\* the cells `cells` only: the two updates change no other cell, an accepted
\* Update raises exactly the minimal cells among them, and Query is the
\* estimate of their minimum.
Addresses(s, hs, cells) ==
    LET cml == sk[s]
        c == Min({cMax} \cup {cml.store[x] : x \in cells})
        upd == Update(sk, s, hs, <<0, 1>>)
        bulk == BulkUpdate(sk, s, hs, 1, <<(<<0, 1>>)>>)
    IN /\ cells \subseteq DOMAIN cml.store
       /\ Changed(sk, upd.heap, s) \subseteq cells
       /\ upd.ret => Changed(sk, upd.heap, s) = {x \in cells : cml.store[x] = c}
       /\ Changed(sk, bulk.heap, s) = Changed(sk, upd.heap, s)
       /\ Query(cml, hs) = value(cml, c)

\* C23 as stated: for every pair (h1, h2) and every sketch with W >= 1,
\* Update, BulkUpdate and Query address, in row i, the cell
\* i*W + ((h1 + i*h2) mod W) with h1 + i*h2 an unbounded integer.
C23_IntegerIndex ==
    \A s \in Live : \A hs \in HashPairs :
        sk[s].w >= 1 => Addresses(s, hs, IntegerCells(sk[s], hs))

\* C23 amended: they address, in row i, the cell
\* i*W + (((h1 + i*h2) mod 2^32) mod W): h1 + i*h2 is evaluated in 32-bit
\* unsigned arithmetic and wraps before the reduction modulo W.
C23_WrappedIndex ==
    \A s \in Live : \A hs \in HashPairs :
        sk[s].w >= 1 => Addresses(s, hs, WrappedCells(sk[s], hs))

\* C23's case: a sketch and a hash pair whose h1 + i*h2 wraps in some row
\* onto another cell than the integer formula gives, with registers that
\* make Query differ from the estimate over the integer formula's cells.
C23_Witness ==
    \E s \in Sound : \E hs \in HashPairs :
        /\ WrappedCells(sk[s], hs) # IntegerCells(sk[s], hs)
        /\ Query(sk[s], hs)
             # value(sk[s], Min({cMax} \cup {sk[s].store[x] : x \in IntegerCells(sk[s], hs)}))

\* C21: two sketches built with the same (W, D, exp) and given the same
\* sequence of Update and BulkUpdate calls return the same values call by
\* call and, after the same number of calls, hold identical stores and
\* generators, however the calls on one are interleaved with those on the
\* other.
C21_TwinsAgree ==
    LET n == Len(sk["B"].hist) IN
    /\ \A i \in 1 .. n : sk["B"].hist[i] = sk["A"].hist[i]
    /\ n = Len(sk["A"].hist) =>
          /\ sk["B"].store = sk["A"].store
          /\ sk["B"].rng = sk["A"].rng

\* C21's case: both sketches have had MaxCalls calls, among them one that
\* returned true and one that returned false, and hold nonzero registers.
C21_Witness ==
    /\ Len(sk["A"].hist) = MaxCalls /\ Len(sk["B"].hist) = MaxCalls
    /\ \E i, j \in 1 .. MaxCalls : sk["B"].hist[i].ret /\ ~sk["B"].hist[j].ret
    /\ \E x \in DOMAIN sk["B"].store : sk["B"].store[x] > 0

\* -------------------------------------------------- claims on the top-K Log
Tracker == sk.maps[sk.topk]

\* Update(key) is successful on the draw r: the increase decision passes.
Successful(key, r) == LogIncreaseDecision(getMin(sk, key), r)

\* The tracker after Update(key) on the draw r when the loop leaves minKey.
TrackerAfter(key, r, minKey) ==
    LogUpdate(sk, key, r, minKey).maps[LogUpdate(sk, key, r, minKey).topk]

\* C24: in the top-K Log, after any sequence of Update and Reset calls the
\* tracker map never holds more than K entries.
C24_TrackerBounded == Cardinality(DOMAIN Tracker) <= sk.k

\* C24's case: the tracker is full and a further successful Update of an
\* absent key replaces an entry.
C24_Witness ==
    /\ Cardinality(DOMAIN Tracker) = sk.k
    /\ \E key \in LogKeys \ DOMAIN Tracker, r \in LogDraws :
         \E minKey \in MinKeys(Tracker) :
            /\ Successful(key, r)
            /\ key \in DOMAIN TrackerAfter(key, r, minKey)

\* The Log after Update(key) on the draw r when the loop leaves minKey.
LogAfter(key, r, minKey) == LogUpdate(sk, key, r, minKey)

\* The smallest estimate the tracker stores.
SmallestStored == Min({Tracker[x] : x \in DOMAIN Tracker})

\* C25: when a successful Update(key) finds key already in the tracker, the
\* tracker's key set is the same after the call as before it, key's stored
\* estimate becomes the new Query(key), and no other entry is evicted or
\* modified.
C25_PresentKeyOnlyOverwritten ==
    \A key \in DOMAIN Tracker, r \in LogDraws :
        \A minKey \in MinKeys(Tracker) :
            Successful(key, r) =>
                LET after == TrackerAfter(key, r, minKey) IN
                /\ DOMAIN after = DOMAIN Tracker
                /\ after[key] = LogQuery(LogAfter(key, r, minKey), key)
                /\ \A x \in DOMAIN Tracker \ {key} : after[x] = Tracker[x]

\* C26: when a successful Update(key) finds key absent from the tracker: if
\* the tracker holds fewer than K entries, key is inserted and nothing is
\* evicted; if it holds K entries, key is inserted if and only if its new
\* estimate strictly exceeds the smallest stored estimate, in which case
\* exactly one entry holding that smallest stored estimate is evicted, and
\* otherwise the tracker is unchanged.
C26_AbsentKeyInsertion ==
    \A key \in LogKeys \ DOMAIN Tracker, r \in LogDraws :
        \A minKey \in MinKeys(Tracker) :
            Successful(key, r) =>
                LET after == TrackerAfter(key, r, minKey)
                    estimate == LogQuery(LogAfter(key, r, minKey), key)
                    gone == DOMAIN Tracker \ DOMAIN after
                IN IF Cardinality(DOMAIN Tracker) < sk.k
                   THEN after = MapPut(Tracker, key, estimate)
                   ELSE IF estimate > SmallestStored
                   THEN /\ key \in DOMAIN after /\ after[key] = estimate
                        /\ Cardinality(gone) = 1
                        /\ \A x \in gone : Tracker[x] = SmallestStored
                        /\ \A x \in DOMAIN Tracker \ gone : after[x] = Tracker[x]
                        /\ DOMAIN after = (DOMAIN Tracker \ gone) \cup {key}
                   ELSE after = Tracker

\* C26's case: a full tracker of two entries, and a successful Update of an
\* absent key whose new estimate does not exceed the smallest stored one.
C26_Witness ==
    \E key \in LogKeys \ DOMAIN Tracker, r \in LogDraws :
        \E minKey \in MinKeys(Tracker) :
            /\ Successful(key, r)
            /\ sk.k = 2
            /\ Cardinality(DOMAIN Tracker) = sk.k
            /\ LogQuery(LogAfter(key, r, minKey), key) >= 1
            /\ LogQuery(LogAfter(key, r, minKey), key) <= SmallestStored
            /\ TrackerAfter(key, r, minKey) = Tracker

\* C27: when an eviction happens and several tracked entries share the
\* smallest stored estimate, the evicted entry is the one with the smallest
\* key, so the tracker after the call is uniquely determined.
C27_EvictsSmallestKey ==
    \A key \in LogKeys \ DOMAIN Tracker, r \in LogDraws :
        \A minKey \in MinKeys(Tracker) :
            LET after == TrackerAfter(key, r, minKey) IN
            (Successful(key, r) /\ DOMAIN Tracker \ DOMAIN after # {}) =>
                DOMAIN Tracker \ DOMAIN after = {Min(MinKeys(Tracker))}

\* The caller's statements m[key] = v and delete(m, key) on the map m that
\* GetTopK returned.
CallerPut(h, key, v) == [h EXCEPT !.maps[h.got] = MapPut(@, key, v)]

CallerDelete(h, key) == [h EXCEPT !.maps[h.got] = MapDelete(@, key)]

\* C28: the value GetTopK returned is a snapshot: Update and Reset calls made
\* afterwards do not change the returned mapping, and the caller's changes to
\* the returned mapping do not change the tracker inside the Log.
C28_SnapshotIsolated ==
    sk.got # 0 =>
        /\ \A key \in LogKeys, r \in LogDraws :
              \A minKey \in MinKeys(Tracker) :
                 LogUpdate(sk, key, r, minKey).maps[sk.got] = sk.maps[sk.got]
        /\ Reset(sk).maps[sk.got] = sk.maps[sk.got]
        /\ \A key \in LogKeys :
              /\ CallerPut(sk, key, 1).maps[sk.topk] = Tracker
              /\ CallerDelete(sk, key).maps[sk.topk] = Tracker

\* ---------------------------------------------- claims on Sketch8, Sketch16
\* C29: for every accepted nBits and every combination of the flags, after
\* any sequence of IncreaseCount calls no register holds a value greater than
\* cMax = 2^nBits - 1.
C29_RegistersWithinCMax ==
    \A i \in 0 .. (sk.k - 1), j \in 0 .. (sk.w - 1) : sk.store[i][j] <= sk.cMax

\* C30: for every combination of the flags, conservative = false included, no
\* IncreaseCount call makes any register smaller than it was before the call.
C30_NoRegisterShrinks ==
    \A s \in Keys, r \in Draws :
        \A i \in 0 .. (sk.k - 1), j \in 0 .. (sk.w - 1) :
            IncreaseCount(sk, s, r).sketch.store[i][j] >= sk.store[i][j]

\* The largest of the key's k registers.
MaxReg(h, s) ==
    CHOOSE x \in {Regs(h, s)[i] : i \in 0 .. (h.k - 1)} :
        \A i \in 0 .. (h.k - 1) : x >= Regs(h, s)[i]

\* The registers IncreaseCount(s) on the draw r writes.
Written(h, s, r) ==
    {<<i, j>> \in (0 .. (h.k - 1)) \X (0 .. (h.w - 1)) :
        IncreaseCount(h, s, r).sketch.store[i][j] # h.store[i][j]}

\* C31: with maxSample = true the stage IncreaseCount passes to the accept
\* decision is the maximum of the key's k registers, whatever their values
\* and their order across the rows; with the conservative policy the cells
\* written on acceptance are still those equal to the minimum.
C31_StageIsMaximum ==
    (sk.maxSample /\ sk.k >= 1) =>
        \A s \in Keys :
            /\ Stage(sk, s) = MaxReg(sk, s)
            /\ sk.conservative =>
                 \A r \in Draws :
                    Written(sk, s, r) \subseteq
                        {<<i, hash(s, i, sk.w)>> : i \in
                            {i \in 0 .. (sk.k - 1) :
                                Regs(sk, s)[i] = StageMin(sk, s)}}

\* C32: the second value IncreaseCount(s) returns equals the value
\* Frequency(s) returns right after the call, whether the increment was
\* accepted, rejected or refused because of saturation.
C32_ReturnsCurrentCount ==
    \A s \in Keys, r \in Draws :
        RatEq(IncreaseCount(sk, s, r).val,
              Frequency(IncreaseCount(sk, s, r).sketch, s))

\* The arguments of the constructor call c are valid: epsilon and delta in
\* (0, 1), the error rate e in [0.001, 1).
ValidCall8(c) ==
    CASE c.f = "NewDefaultSketch8" -> TRUE
      [] c.f = "NewSketch8ForEpsilonDelta" -> InUnit(c.epsilon) /\ InUnit(c.delta)
      [] c.f = "NewForCapacity8" -> FloatLe(<<1, 1000>>, c.e) /\ FloatLt(c.e, <<1, 1>>)

\* C33: every 8-bit convenience constructor passes an nBits NewSketch8
\* accepts: for valid arguments each returns a sketch and a nil error.
C33_Constructors8Accept == ValidCall8(sk.call) => ~sk.nil

\* C34: in every state reachable by Update and Reset each tracked key's
\* stored estimate is at most the current Query(key), and right after a
\* successful Update(key) that leaves key in the tracker the stored estimate
\* equals Query(key).
C34_StoredAtMostQuery ==
    /\ \A key \in DOMAIN Tracker : Tracker[key] <= LogQuery(sk, key)
    /\ \A key \in LogKeys, r \in LogDraws :
          \A minKey \in MinKeys(Tracker) :
             (Successful(key, r) /\ key \in DOMAIN TrackerAfter(key, r, minKey)) =>
                TrackerAfter(key, r, minKey)[key]
                    = LogQuery(LogAfter(key, r, minKey), key)

\* C34's case: a tracked key whose stored estimate is below its current
\* Query, and a successful Update of it that leaves it in the tracker.
C34_Witness ==
    \E key \in DOMAIN Tracker, r \in LogDraws :
        \E minKey \in MinKeys(Tracker) :
            /\ Tracker[key] < LogQuery(sk, key)
            /\ Successful(key, r)
            /\ key \in DOMAIN TrackerAfter(key, r, minKey)

\* C35: Unmarshall16 never fails abruptly: for every input shorter than the
\* 51-byte header, or shorter than the 51 + 2*w*k bytes its header
\* announces, it returns an error and no sketch; and for every Sketch16 S,
\* Unmarshall16(S.Marshall()) returns a sketch equal to S in all flags, w, k,
\* nBits, totalCount, exp, cMax and every register.
C35_Unmarshall16Total ==
    sk.kind = "Sketch16" =>
        /\ \A n \in 0 .. (Len(Marshall(sk)) - 1) :
              LET res == Unmarshall16(SubSeq(Marshall(sk), 1, n)) IN
              ~res.panic /\ res.err
        /\ ~Unmarshall16(Marshall(sk)).panic
        /\ ~Unmarshall16(Marshall(sk)).err
        /\ Unmarshall16(Marshall(sk)).sketch = sk

\* The largest raw counter among the key's d cells.
LargestRaw(h, key) ==
    LET cells == {h.count[i][hashFunc(h, KeyHash(key))] : i \in 0 .. (h.d - 1)}
    IN CHOOSE v \in cells : \A u \in cells : v >= u

\* C36: in the classic count-min Sketch, Get(key) never exceeds the largest
\* raw counter among the key's d cells: the noise correction
\* values[i] - (total - values[i]) / (w - 1) never underflows the unsigned
\* integer and never divides by zero, in every reachable counter state.
C36_GetWithinRawCounters ==
    \A key \in LogKeys :
        /\ ~Get(sk, key).underflow
        /\ ~Get(sk, key).divzero
        /\ Get(sk, key).ret <= LargestRaw(sk, key)

====
